---- MODULE Spec2Model ----
(***************************************************************************)
(* A model of 1passsync.py: the config driver, the file materializer, the  *)
(* template engine and the secret resolver.                                *)
(*                                                                         *)
(* Text is a sequence of one-character strings.  Python's None is the      *)
(* one-element sequence None, which no text equals because its element is  *)
(* not a single character.                                                 *)
(***************************************************************************)
EXTENDS Integers, Sequences, FiniteSets, TLC

None == <<"<None>">>

\* A JSON value that is not a string (a number, say): like None, a
\* one-element sequence no text equals.
NonText == <<"<number>">>

\* Python truthiness of an optional text: None and "" are falsy.
Falsy(x) == x = None \/ x = <<>>

\* s[a..b] as a sequence (empty when b < a).
Slice(s, a, b) == IF b < a THEN <<>> ELSE SubSeq(s, a, b)

(***************************************************************************)
(* The placeholder pattern  \{\{(?:(?:(.+?)\.)?(.+?)\.)?(.+?)}}            *)
(* as the backtracking matcher runs it.  Both optional groups are greedy   *)
(* (tried present first) and every (.+?) is lazy (shortest first), so at a *)
(* start s the first success in this order is the match:                   *)
(*   three groups, (i, j, k) least in lexicographic order,                 *)
(*   two groups,   (j, k) least,                                           *)
(*   one group,    k least,                                                *)
(* where i and j are the positions of the dots that end groups 1 and 2 and *)
(* k is the position of the closing braces.                                *)
(***************************************************************************)
IsOpen(line, s) == s + 1 <= Len(line) /\ line[s] = "{" /\ line[s + 1] = "{"

IsClose(line, k) == k + 1 <= Len(line) /\ line[k] = "}" /\ line[k + 1] = "}"

IsDot(line, i) == i <= Len(line) /\ line[i] = "."

Least(S) == CHOOSE x \in S : \A y \in S : x <= y

\* The closing braces that can end a non-empty last group starting at from.
Closes(line, from) == {k \in (from + 1)..Len(line) : IsClose(line, k)}

\* The dots that can end a non-empty group starting at from, with a match after.
Dots2(line, from) ==
    {j \in (from + 1)..Len(line) : IsDot(line, j) /\ Closes(line, j + 1) # {}}

Dots1(line, from) ==
    {i \in (from + 1)..Len(line) : IsDot(line, i) /\ Dots2(line, i + 1) # {}}

Match3(line, s) ==
    LET i == Least(Dots1(line, s + 2))
        j == Least(Dots2(line, i + 1))
        k == Least(Closes(line, j + 1))
    IN [start |-> s, end |-> k + 1,
        vault |-> Slice(line, s + 2, i - 1),
        item  |-> Slice(line, i + 1, j - 1),
        field |-> Slice(line, j + 1, k - 1)]

Match2(line, s) ==
    LET j == Least(Dots2(line, s + 2))
        k == Least(Closes(line, j + 1))
    IN [start |-> s, end |-> k + 1,
        vault |-> None,
        item  |-> Slice(line, s + 2, j - 1),
        field |-> Slice(line, j + 1, k - 1)]

Match1(line, s) ==
    LET k == Least(Closes(line, s + 2))
    IN [start |-> s, end |-> k + 1,
        vault |-> None,
        item  |-> None,
        field |-> Slice(line, s + 2, k - 1)]

\* Whether the pattern matches at s, and the match (groups not taken are None).
MatchesAt(line, s) == IsOpen(line, s) /\ Closes(line, s + 2) # {}

MatchAt(line, s) ==
    IF Dots1(line, s + 2) # {} THEN Match3(line, s)
    ELSE IF Dots2(line, s + 2) # {} THEN Match2(line, s)
    ELSE Match1(line, s)

\* re.finditer(pattern, line): the non-overlapping matches, leftmost first.
RECURSIVE FindFrom(_, _)
FindFrom(line, pos) ==
    IF pos > Len(line) THEN <<>>
    ELSE IF MatchesAt(line, pos)
         THEN LET m == MatchAt(line, pos)
              IN <<m>> \o FindFrom(line, m.end + 1)
         ELSE FindFrom(line, pos + 1)

finditer(line) == FindFrom(line, 1)

\* match.group(): the matched text.
group(line, m) == SubSeq(line, m.start, m.end)

(***************************************************************************)
(* str.replace(old, new) with no count: every non-overlapping occurrence   *)
(* of old, left to right.  old is a matched text, never empty.             *)
(***************************************************************************)
OccursAt(s, old, i) ==
    i + Len(old) - 1 <= Len(s) /\ SubSeq(s, i, i + Len(old) - 1) = old

RECURSIVE ReplaceFrom(_, _, _, _)
ReplaceFrom(s, old, new, i) ==
    IF i > Len(s) THEN <<>>
    ELSE IF OccursAt(s, old, i)
         THEN new \o ReplaceFrom(s, old, new, i + Len(old))
         ELSE <<s[i]>> \o ReplaceFrom(s, old, new, i + 1)

replace(s, old, new) == ReplaceFrom(s, old, new, 1)

(***************************************************************************)
(* The inputs: names, values, template files, backend responses.           *)
(***************************************************************************)
\* A key a WorkItem does not carry (item["k"] raises KeyError on it).
Absent == <<"<absent>">>

\* The one-character names the configs and templates use.
AccountName == <<"c">>
VaultName == <<"v">>
ItemName == <<"d">>
DisplayName == <<"n">>

\* Placeholder texts.
Ph1(f) == <<"{", "{">> \o f \o <<"}", "}">>
Ph2(i, f) == <<"{", "{">> \o i \o <<".">> \o f \o <<"}", "}">>
Ph3(v, i, f) == <<"{", "{">> \o v \o <<".">> \o i \o <<".">> \o f \o <<"}", "}">>

Dests == {"out"}

\* The template files on disk, by path; "gone" cannot be opened.
Sources == {"ta", "tb", "tc", "gone"}

TemplateFile(path) ==
    CASE path = "ta" -> << Ph1(<<"a">>) \o <<" ">> \o Ph1(<<"b">>) >>
      [] path = "tb" -> << <<"x">>, Ph2(<<"i">>, <<"b">>),
                           Ph3(<<"w">>, <<"i">>, <<"a">>) >>
      [] path = "tc" -> << Ph1(<<"a">>) \o Ph1(<<"a">>) >>
      [] OTHER -> <<>>

Readable(path) == path \in {"ta", "tb", "tc"}

\* The configs' WorkItems: every combination of the optional keys for both
\* types, an unknown type, and items that lack a required key.
Opt(x) == {x, Absent}

WellFormed ==
    [name : {DisplayName}, type : {"template"}, destination : Dests,
     source : Sources, account : Opt(AccountName), vault : Opt(VaultName),
     item : Opt(ItemName)]
    \cup
    [name : {DisplayName}, type : {"file"}, destination : Dests,
     source : {"absent"}, account : Opt(AccountName), vault : Opt(VaultName),
     item : Opt(ItemName)]
    \cup
    [name : {DisplayName}, type : {"other"}, destination : Dests,
     source : {"absent"}, account : {Absent}, vault : {Absent},
     item : {ItemName}]

Defective ==
    [name : {Absent}, type : {"file", "template"}, destination : Dests,
     source : {"tb"}, account : {Absent}, vault : {Absent}, item : {ItemName}]
    \cup
    [name : {DisplayName}, type : {"file", "template"}, destination : {"absent"},
     source : {"tb"}, account : {Absent}, vault : {Absent}, item : {ItemName}]
    \cup
    [name : {DisplayName}, type : {"absent"}, destination : Dests,
     source : {"tb"}, account : {Absent}, vault : {Absent}, item : {ItemName}]
    \cup
    [name : {DisplayName}, type : {"template"}, destination : Dests,
     source : {"absent"}, account : {Absent}, vault : {Absent}, item : {ItemName}]

WorkItems == WellFormed \cup Defective

\* What `op item get ... --format json` can do.  kind is
\*   "oserror"       the command cannot be started (subprocess.run raises OSError),
\*   "exit_nonzero"  CalledProcessError,
\*   "bad_json"      stdout is not JSON,
\*   "not_object"    stdout is JSON but not an object,
\*   "ok"            stdout is an object whose "fields" is the list fields.
Field(l, v) == [label |-> l, value |-> v]

FieldLists ==
    { <<>>,
      << Field(<<"a">>, <<"x">>), Field(<<"b">>, <<"y">>) >>,
      << Field(<<"a">>, Ph1(<<"b">>)), Field(<<"b">>, <<"x">>) >>,
      << Field(<<"a">>, <<>>), Field(<<"b">>, <<>>) >>,
      << Field(<<"a">>, None), Field(<<"b">>, None) >>,
      << Field(<<"A">>, <<"x">>), Field(<<"B">>, <<"x">>) >>,
      << Field(<<"a">>, <<"x">>), Field(<<"a">>, <<"y">>),
         Field(<<"b">>, <<"y">>), Field(<<"b">>, <<"x">>) >>,
      << Field(<<"a">>, NonText), Field(<<"b">>, NonText) >> }

Response(k, f, b) == [kind |-> k, fields |-> f, stdout |-> b]

NoResponse == Response("none", <<>>, <<>>)

ItemResponses ==
    {Response(k, <<>>, <<>>) : k \in {"oserror", "exit_nonzero", "bad_json", "not_object"}}
    \cup {Response("ok", f, <<>>) : f \in FieldLists}

\* What `op document get` can do: it cannot start, exits non-zero, or exits
\* zero with the document's bytes on stdout.
Documents == {<<>>, <<"k">>, <<"k", "k">>}

DocResponses ==
    {Response(k, <<>>, <<>>) : k \in {"oserror", "exit_nonzero"}}
    \cup {Response("ok", <<>>, b) : b \in Documents}

\* What opening and writing a destination can do.
WriteOutcomes == {"ok", "open_fails", "write_fails"}

(***************************************************************************)
(* Secret resolver.                                                        *)
(***************************************************************************)
\* The first entry of fields whose label is field (the for/break loop), as
\* its index, or 0 when there is none.
FirstLabelled(fields, field) ==
    LET hits == {n \in 1..Len(fields) : fields[n].label = field}
    IN IF hits = {} THEN 0 ELSE Least(hits)

\* The outcome of one call: raised (an exception the function does not
\* catch leaves it), value (the return value when it returns), diag (it
\* printed a failure diagnostic), ran (the backend command was started).
Outcome(r, v, d, n) == [raised |-> r, value |-> v, diag |-> d, ran |-> n]

\* A resolver that does not catch CalledProcessError.
get_1password_value_uncaught(account, vault, item, field, resp) ==
    IF Falsy(item) THEN Outcome(FALSE, None, TRUE, FALSE)
    ELSE IF resp.kind = "oserror" THEN Outcome(TRUE, None, FALSE, FALSE)
    ELSE IF resp.kind = "exit_nonzero" THEN Outcome(TRUE, None, FALSE, TRUE)
    ELSE IF resp.kind = "bad_json" THEN Outcome(FALSE, None, TRUE, TRUE)
    ELSE IF resp.kind = "not_object" THEN Outcome(TRUE, None, FALSE, TRUE)
    ELSE LET n == FirstLabelled(resp.fields, field)
             value == IF n = 0 THEN None ELSE resp.fields[n].value
         IN Outcome(FALSE, value, Falsy(value), TRUE)

get_1password_value(account, vault, item, field, resp) ==
    IF Falsy(item) THEN Outcome(FALSE, None, TRUE, FALSE)
    ELSE IF resp.kind = "oserror" THEN Outcome(TRUE, None, FALSE, FALSE)
    ELSE IF resp.kind = "exit_nonzero" THEN Outcome(FALSE, None, TRUE, TRUE)
    ELSE IF resp.kind = "bad_json" THEN Outcome(FALSE, None, TRUE, TRUE)
    ELSE IF resp.kind = "not_object" THEN Outcome(TRUE, None, FALSE, TRUE)
    ELSE LET n == FirstLabelled(resp.fields, field)
             value == IF n = 0 THEN None ELSE resp.fields[n].value
         IN Outcome(FALSE, value, Falsy(value), TRUE)

get_1password_file(account, vault, item, resp) ==
    IF item = None THEN Outcome(TRUE, None, FALSE, FALSE)
    ELSE IF resp.kind = "oserror" THEN Outcome(TRUE, None, FALSE, FALSE)
    ELSE IF resp.kind = "exit_nonzero" THEN Outcome(FALSE, None, TRUE, TRUE)
    ELSE Outcome(FALSE, resp.stdout, FALSE, TRUE)

(***************************************************************************)
(* File materializer.  The result: ret (the return value), dest (what      *)
(* happened to the destination file: "untouched", "truncated" when it was  *)
(* opened and the write failed, "written"), out (what was written), ran,   *)
(* and io (the outcome of the write that was attempted, or "none").        *)
(***************************************************************************)
Result(r, d, o, n, w) == [ret |-> r, dest |-> d, out |-> o, ran |-> n, io |-> w]

\* open(destination, 'w'/'wb') and the write of data, under outcome w.
write_file(data, w, ran) ==
    IF w = "open_fails" THEN Result(FALSE, "untouched", None, ran, w)
    ELSE IF w = "write_fails" THEN Result(FALSE, "truncated", <<>>, ran, w)
    ELSE Result(TRUE, "written", data, ran, w)

process_file(account, vault, item, resp, w) ==
    LET got == get_1password_file(account, vault, item, resp)
    IN IF got.raised THEN Result(FALSE, "untouched", None, got.ran, "none")
       ELSE IF Falsy(got.value) THEN Result(FALSE, "untouched", None, got.ran, "none")
       ELSE write_file(got.value, w, got.ran)

(***************************************************************************)
(* Template engine.                                                        *)
(***************************************************************************)
\* The matches of a whole template in the order the two loops visit them:
\* [ln |-> line number, m |-> match], found on the lines as read.
RECURSIVE MatchesFrom(_, _)
MatchesFrom(lines, ln) ==
    IF ln > Len(lines) THEN <<>>
    ELSE LET ms == finditer(lines[ln])
         IN [n \in 1..Len(ms) |-> [ln |-> ln, m |-> ms[n]]]
            \o MatchesFrom(lines, ln + 1)

all_matches(lines) == MatchesFrom(lines, 1)

\* The arguments of the lookup for one match (the two fallbacks).
lookup_vault(vault, m) == IF Falsy(m.vault) THEN vault ELSE m.vault

\* An engine that ignores the placeholder's item.
lookup_item_no_override(item_name, m) == item_name

lookup_item(item_name, m) == IF Falsy(m.item) THEN item_name ELSE m.item

\* str.replace raises TypeError when value is not a string.
replace_raises(value) == value = NonText

\* content[line_number] = content[line_number].replace(match.group(), value)
substitute(content, ln, text, value) ==
    [content EXCEPT ![ln] = replace(content[ln], text, value)]

\* An engine that writes whatever the lookups gave.
write_always(success) == TRUE

\* The final write happens only when no match failed.
write_allowed(success) == success

\* dict.get(key, None)
get(x) == IF x = Absent THEN None ELSE x

\* A handler that lets the exception through.
on_exception_propagates == "crashed"

\* except Exception: print, return False.  Control goes back to the driver's
\* loop (a propagating exception would end the run).
on_exception == "driver"

(***************************************************************************)
(* The run.                                                                *)
(***************************************************************************)
MaxItems == 2

VARIABLES
    pc,          \* "driver", "template" (inside process_template), "done", "crashed"
    nitems,      \* len(config["items"])
    idx,         \* how many items the for loop has taken
    cur,         \* the item the loop is at
    fs,          \* per destination: the last item that opened it for writing, 0 for none
    backendUsed, \* a backend command has been started in this run
    dispatched,  \* the calls of process_file / process_template: [i, type]
    reports,     \* the driver's per-item Done / Error lines: [i, outcome]
    ret,         \* the return value of the current item's call: "unset", "True", "False"
    dest,        \* the current item's destination: "untouched", "truncated", "written"
    out,         \* what the current item wrote, None when nothing
    io,          \* the outcome of the write the current item attempted, "none" when none
    content,     \* process_template: the lines, as substituted so far
    matches,     \* process_template: the matches of the lines as read
    mi,          \* process_template: how many matches have been handled
    success,     \* process_template: no lookup has returned None
    lookups,     \* the current item's calls of get_1password_value, with outcomes
    lastResp     \* what the backend did for the latest command of the current item

runVars == <<nitems, fs, backendUsed, dispatched, reports>>
itemVars == <<ret, dest, out, io, content, matches, mi, success, lookups, lastResp>>
vars == <<pc, idx, cur, runVars, itemVars>>

NoItem ==
    [name |-> Absent, type |-> "absent", destination |-> "absent",
     source |-> "absent", account |-> Absent, vault |-> Absent, item |-> Absent]

Bool(b) == IF b THEN "True" ELSE "False"

Init ==
    /\ pc = "driver"
    /\ nitems \in 0..MaxItems
    /\ idx = 0
    /\ cur = NoItem
    /\ fs = [d \in Dests |-> 0]
    /\ backendUsed = FALSE
    /\ dispatched = <<>>
    /\ reports = <<>>
    /\ ret = "unset"
    /\ dest = "untouched"
    /\ out = None
    /\ io = "none"
    /\ content = <<>>
    /\ matches = <<>>
    /\ mi = 0
    /\ success = TRUE
    /\ lookups = <<>>
    /\ lastResp = NoResponse

\* The loop takes the next item: a new iteration's locals.
Take(item) ==
    /\ pc = "driver"
    /\ idx < nitems
    /\ idx' = idx + 1
    /\ cur' = item
    /\ UNCHANGED nitems

\* A driver that reads `source` with a default.
KeyError_no_source(item) ==
    \/ item.name = Absent
    \/ item.destination = "absent"
    \/ item.type = "absent"

\* The keys the loop body reads with item[...] before it calls anything.
KeyError(item) ==
    \/ item.name = Absent
    \/ item.destination = "absent"
    \/ item.type = "absent"
    \/ item.type = "template" /\ item.source = "absent"

\* A driver that prints Done whatever process_file returned.
item_report_always_done(i, type, r) ==
    IF type = "file" THEN << [i |-> i, outcome |-> "Done"] >>
    ELSE <<>>

\* The driver's summary line for an item whose call returned r: process_file's
\* result is printed, process_template's is dropped.
item_report(i, type, r) ==
    IF type = "file" THEN << [i |-> i, outcome |-> IF r THEN "Done" ELSE "Error"] >>
    ELSE <<>>

FreshItem ==
    /\ ret' = "unset"
    /\ dest' = "untouched"
    /\ out' = None
    /\ io' = "none"
    /\ content' = <<>>
    /\ matches' = <<>>
    /\ mi' = 0
    /\ success' = TRUE
    /\ lookups' = <<>>
    /\ lastResp' = NoResponse

\* A missing key ends the run with an uncaught KeyError.
DriverCrash ==
    \E item \in WorkItems :
        /\ Take(item)
        /\ KeyError(item)
        /\ pc' = "crashed"
        /\ FreshItem
        /\ UNCHANGED <<fs, backendUsed, dispatched, reports>>

\* An item whose type is neither "file" nor "template".
DriverSkip ==
    \E item \in WorkItems :
        /\ Take(item)
        /\ ~KeyError(item)
        /\ item.type \notin {"file", "template"}
        /\ pc' = "driver"
        /\ FreshItem
        /\ UNCHANGED <<fs, backendUsed, dispatched, reports>>

\* A file item: process_file and the summary line.
DriverFile ==
    \E item \in WorkItems, w \in WriteOutcomes :
      \E resp \in (IF get(item.item) = None THEN {NoResponse} ELSE DocResponses) :
        /\ Take(item)
        /\ ~KeyError(item)
        /\ item.type = "file"
        /\ LET r == process_file(get(item.account), get(item.vault),
                                 get(item.item), resp, w)
           IN /\ ret' = Bool(r.ret)
              /\ dest' = r.dest
              /\ out' = r.out
              /\ io' = r.io
              /\ fs' = IF r.dest = "untouched" THEN fs
                       ELSE [fs EXCEPT ![item.destination] = idx + 1]
              /\ backendUsed' = (backendUsed \/ r.ran)
              /\ reports' = reports \o item_report(idx + 1, item.type, r.ret)
        /\ dispatched' = Append(dispatched, [i |-> idx + 1, type |-> "file"])
        /\ lastResp' = resp
        /\ pc' = "driver"
        /\ content' = <<>>
        /\ matches' = <<>>
        /\ mi' = 0
        /\ success' = TRUE
        /\ lookups' = <<>>

\* A template item: process_template is entered and the template is read.
DriverTemplate ==
    \E item \in WorkItems :
        /\ Take(item)
        /\ ~KeyError(item)
        /\ item.type = "template"
        /\ dispatched' = Append(dispatched, [i |-> idx + 1, type |-> "template"])
        /\ IF Readable(item.source)
           THEN /\ content' = TemplateFile(item.source)
                /\ matches' = all_matches(TemplateFile(item.source))
                /\ ret' = "unset"
                /\ pc' = "template"
                /\ reports' = reports
           ELSE /\ content' = <<>>
                /\ matches' = <<>>
                /\ ret' = "False"
                /\ pc' = on_exception
                /\ reports' = reports \o item_report(idx + 1, item.type, FALSE)
        /\ dest' = "untouched"
        /\ out' = None
        /\ io' = "none"
        /\ mi' = 0
        /\ success' = TRUE
        /\ lookups' = <<>>
        /\ lastResp' = NoResponse
        /\ UNCHANGED <<fs, backendUsed>>

\* One match of the template: the lookup and, when it gave a value, the
\* substitution.  An exception the resolver lets through, or one the
\* substitution raises, ends the pass.
Lookup ==
    /\ pc = "template"
    /\ mi < Len(matches)
    /\ LET e == matches[mi + 1]
           account == get(cur.account)
           vault == lookup_vault(get(cur.vault), e.m)
           item == lookup_item(get(cur.item), e.m)
           field == e.m.field
           text == group(TemplateFile(cur.source)[e.ln], e.m)
       IN \E resp \in (IF Falsy(item) THEN {NoResponse} ELSE ItemResponses) :
            LET o == get_1password_value(account, vault, item, field, resp)
                call == [account |-> account, vault |-> vault, item |-> item,
                         field |-> field, ln |-> e.ln, m |-> e.m,
                         raised |-> o.raised, value |-> o.value, diag |-> o.diag]
            IN /\ lookups' = Append(lookups, call)
               /\ lastResp' = resp
               /\ backendUsed' = (backendUsed \/ o.ran)
               /\ mi' = mi + 1
               /\ IF o.raised \/ (o.value # None /\ replace_raises(o.value))
                  THEN /\ ret' = "False"
                       /\ pc' = on_exception
                       /\ reports' = reports \o item_report(idx, cur.type, FALSE)
                       /\ UNCHANGED <<content, success>>
                  ELSE /\ ret' = ret
                       /\ pc' = pc
                       /\ reports' = reports
                       /\ IF o.value # None
                          THEN /\ content' = substitute(content, e.ln, text, o.value)
                               /\ success' = success
                          ELSE /\ content' = content
                               /\ success' = FALSE
    /\ UNCHANGED <<idx, cur, nitems, fs, dispatched, dest, out, io, matches>>

\* After the last match: the write, when allowed, and the return.
Finish ==
    /\ pc = "template"
    /\ mi = Len(matches)
    /\ \E w \in WriteOutcomes :
         LET r == IF write_allowed(success)
                  THEN write_file(content, w, FALSE)
                  ELSE Result(FALSE, "untouched", None, FALSE, "none")
         IN /\ ret' = Bool(r.ret)
            /\ dest' = r.dest
            /\ out' = r.out
            /\ io' = r.io
            /\ fs' = IF r.dest = "untouched" THEN fs
                     ELSE [fs EXCEPT ![cur.destination] = idx]
            /\ reports' = reports \o item_report(idx, cur.type, r.ret)
    /\ pc' = "driver"
    /\ UNCHANGED <<idx, cur, nitems, backendUsed, dispatched, content, matches,
                   mi, success, lookups, lastResp>>

\* The loop is over.
Done ==
    /\ pc = "driver"
    /\ idx = nitems
    /\ pc' = "done"
    /\ UNCHANGED <<idx, cur, runVars, itemVars>>

Next ==
    \/ DriverCrash
    \/ DriverSkip
    \/ DriverFile
    \/ DriverTemplate
    \/ Lookup
    \/ Finish
    \/ Done

Spec == Init /\ [][Next]_vars

(***************************************************************************)
(* The matcher alone, on lines built from well-formed placeholders with    *)
(* separating text between them.                                           *)
(***************************************************************************)
MaxPlaceholders == 2

Placeholders ==
    {Ph1(<<"a">>), Ph2(<<"i">>, <<"a">>), Ph3(<<"w">>, <<"i">>, <<"a">>)}

Separators == {<<>>, <<" ">>, <<".">>, <<"x", ".", "y">>}

RECURSIVE LinesWith(_)
LinesWith(k) ==
    IF k = 0 THEN Separators
    ELSE LinesWith(k - 1)
         \cup {l \o p \o t : l \in LinesWith(k - 1), p \in Placeholders, t \in Separators}

InitMatch ==
    /\ pc = "scan"
    /\ content \in {<<l>> : l \in LinesWith(MaxPlaceholders)}
    /\ nitems = 0
    /\ idx = 0
    /\ cur = NoItem
    /\ fs = [d \in Dests |-> 0]
    /\ backendUsed = FALSE
    /\ dispatched = <<>>
    /\ reports = <<>>
    /\ ret = "unset"
    /\ dest = "untouched"
    /\ out = None
    /\ io = "none"
    /\ matches = <<>>
    /\ mi = 0
    /\ success = TRUE
    /\ lookups = <<>>
    /\ lastResp = NoResponse

\* The two loops' matches of the lines.
Scan ==
    /\ pc = "scan"
    /\ matches' = all_matches(content)
    /\ pc' = "scanned"
    /\ UNCHANGED <<idx, cur, runVars, ret, dest, out, io, content, mi, success,
                   lookups, lastResp>>

SpecMatch == InitMatch /\ [][Scan]_vars

(***************************************************************************)
(* Properties.                                                             *)
(***************************************************************************)
\* The current item is a template item whose call was entered.
InTemplateItem == idx > 0 /\ pc # "crashed" /\ cur.type = "template"

\* The current item is a file item whose call was entered.
InFileItem == idx > 0 /\ pc # "crashed" /\ cur.type = "file"

\* The n-th lookup of the current item did not resolve.
Failed(n) == lookups[n].raised \/ lookups[n].value = None

LastLookup == lookups[Len(lookups)]

\* C1: process_template writes the destination only if every match of the
\* whole template was looked up and resolved; once it has returned with a
\* failed match or an unreadable template, the destination was not opened or
\* modified and the return value is False.
C1_WriteOnlyIfAllResolved ==
    InTemplateItem =>
        /\ dest # "untouched" =>
              /\ Readable(cur.source)
              /\ Len(lookups) = Len(all_matches(TemplateFile(cur.source)))
              /\ \A n \in 1..Len(lookups) : ~Failed(n)
        /\ (ret # "unset"
              /\ (~Readable(cur.source) \/ \E n \in 1..Len(lookups) : Failed(n))) =>
              /\ dest = "untouched"
              /\ out = None
              /\ io = "none"
              /\ ret = "False"
              /\ fs[cur.destination] # idx

\* A template with two matches returned False without touching the
\* destination: its first match resolved and its second did not.
C1_PartialFailure ==
    /\ InTemplateItem
    /\ ret = "False"
    /\ dest = "untouched"
    /\ Len(lookups) = 2
    /\ ~Failed(1)
    /\ Failed(2)

\* The item a lookup is claimed to use: the placeholder's, else the
\* WorkItem's `item`, else the WorkItem's `name`.
ClaimedItem(m) ==
    IF m.item # None THEN m.item
    ELSE IF cur.item # Absent THEN cur.item
    ELSE cur.name

ArgsButItem(c) ==
    /\ c.account = get(cur.account)
    /\ c.vault = (IF c.m.vault # None THEN c.m.vault ELSE get(cur.vault))
    /\ c.field = c.m.field

RECURSIVE SplitDots(_)
SplitDots(body) ==
    LET dots == {n \in 1..Len(body) : body[n] = "."}
    IN IF dots = {} THEN <<body>>
       ELSE <<Slice(body, 1, Least(dots) - 1)>>
            \o SplitDots(Slice(body, Least(dots) + 1, Len(body)))

ClaimedToken(line, s) ==
    LET k == Least({c \in (s + 2)..Len(line) : IsClose(line, c)})
        parts == SplitDots(Slice(line, s + 2, k - 1))
        n == Len(parts)
    IN [start |-> s, end |-> k + 1,
        vault |-> IF n >= 3 THEN parts[n - 2] ELSE None,
        item  |-> IF n >= 2 THEN parts[n - 1] ELSE None,
        field |-> parts[n]]

RECURSIVE ClaimedFrom(_, _)
ClaimedFrom(line, pos) ==
    IF pos > Len(line) THEN <<>>
    ELSE IF IsOpen(line, pos) /\ \E c \in (pos + 2)..Len(line) : IsClose(line, c)
         THEN LET t == ClaimedToken(line, pos)
              IN <<t>> \o ClaimedFrom(line, t.end + 1)
         ELSE ClaimedFrom(line, pos + 1)

\* C4 as claimed: a line built from k well-formed placeholders and the text
\* between them yields exactly those k tokens, each with its own components.
C4_Claim ==
    pc = "scanned" =>
        LET claimed == ClaimedFrom(content[1], 1)
        IN matches = [n \in 1..Len(claimed) |-> [ln |-> 1, m |-> claimed[n]]]

\* C5 as claimed: a document fetch that exits zero with bytes B, B empty
\* included, has B written to a destination that can be written and True
\* returned; a failed fetch leaves the destination alone and returns False.
C5_Claim ==
    (InFileItem /\ ret # "unset") =>
        IF lastResp.kind = "ok"
        THEN \/ io \in {"open_fails", "write_fails"}
             \/ dest = "written" /\ out = lastResp.stdout /\ ret = "True"
        ELSE dest = "untouched" /\ out = None /\ ret = "False"

\* The backend answered the current item's lookups as a mapping would: equal
\* (account, vault, item, field) got equal values.
StableBackend ==
    \A n1, n2 \in 1..Len(lookups) :
        (/\ lookups[n1].account = lookups[n2].account
         /\ lookups[n1].vault = lookups[n2].vault
         /\ lookups[n1].item = lookups[n2].item
         /\ lookups[n1].field = lookups[n2].field)
        => lookups[n1].value = lookups[n2].value

\* line with the spans of hits[1..n] (matches of line, left to right) each
\* replaced by that hit's own value.
RECURSIVE SpanReplace(_, _, _)
SpanReplace(line, hits, n) ==
    IF n = 0 THEN line
    ELSE LET h == hits[n]
         IN SpanReplace(Slice(line, 1, h.m.start - 1) \o h.value
                          \o Slice(line, h.m.end + 1, Len(line)),
                        hits, n - 1)

ExpectedLine(ln) ==
    LET OnLine(c) == c.ln = ln
        hits == SelectSeq(lookups, OnLine)
    IN SpanReplace(TemplateFile(cur.source)[ln], hits, Len(hits))

\* C6 as claimed: a written line is the source line with each matched
\* placeholder replaced in place by its own value and nothing else changed.
C6_Claim ==
    (InTemplateItem /\ dest = "written" /\ StableBackend) =>
        /\ Len(out) = Len(TemplateFile(cur.source))
        /\ \A ln \in 1..Len(out) : out[ln] = ExpectedLine(ln)

\* The keys the spec calls required.
LacksRequired(item) ==
    \/ item.name = Absent
    \/ item.type = "absent"
    \/ item.destination = "absent"
    \/ item.type = "template" /\ item.source = "absent"
    \/ item.type = "file" /\ item.item = Absent

\* The keys whose absence ends the run.
LacksFatal(item) ==
    \/ item.name = Absent
    \/ item.type = "absent"
    \/ item.destination = "absent"
    \/ item.type = "template" /\ item.source = "absent"

\* C7 as claimed: once the loop is at an item that lacks a required key, the
\* run has aborted and no backend command was started and no destination
\* written for any item of the config.
C7_Claim ==
    (idx > 0 /\ LacksRequired(cur)) =>
        /\ pc = "crashed"
        /\ ~backendUsed
        /\ dispatched = <<>>
        /\ \A d \in Dests : fs[d] = 0

\* C7 as amended: an item that lacks `name`, `type`, `destination` or, for a
\* template, `source` aborts the run when the loop reaches it: nothing is
\* called, started or written for that item, and no later item is taken; the
\* items before it have been processed.  A file item that lacks `item` does
\* not abort the run: its fetch fails before any command is started and it
\* is reported as an error.
C7_Amended ==
    /\ (idx > 0 /\ LacksFatal(cur)) => pc = "crashed"
    /\ pc = "crashed" =>
          /\ LacksFatal(cur)
          /\ ret = "unset"
          /\ dest = "untouched"
          /\ lookups = <<>>
          /\ lastResp = NoResponse
          /\ \A n \in 1..Len(dispatched) : dispatched[n].i < idx
          /\ \A n \in 1..Len(reports) : reports[n].i < idx
          /\ \A d \in Dests : fs[d] < idx
    /\ (idx > 0 /\ ~LacksFatal(cur) /\ cur.type = "file" /\ cur.item = Absent) =>
          /\ pc # "crashed"
          /\ ret = "False"
          /\ dest = "untouched"
          /\ lastResp = NoResponse
          /\ reports # <<>>
          /\ reports[Len(reports)] = [i |-> idx, outcome |-> "Error"]

\* The run aborted at its second item after its first item had used the
\* backend and written its destination.
C7_EarlierItemProcessed ==
    /\ pc = "crashed"
    /\ idx = 2
    /\ backendUsed
    /\ fs["out"] = 1
    /\ Len(dispatched) = 1

\* C8: the run aborts only at an item that lacks a required key; every item
\* of type file or template that carries its keys is dispatched when the
\* loop reaches it, once and in declared order, and the loop ends only after
\* the last item.
C8_NoItemLocalAbort ==
    /\ pc = "crashed" => LacksRequired(cur)
    /\ \A n \in 1..Len(dispatched) :
          /\ dispatched[n].i \in 1..idx
          /\ (n > 1 => dispatched[n - 1].i < dispatched[n].i)
    /\ (idx > 0 /\ ~LacksRequired(cur) /\ cur.type \in {"file", "template"}) =>
          /\ dispatched # <<>>
          /\ dispatched[Len(dispatched)] = [i |-> idx, type |-> cur.type]
    /\ pc = "done" => idx = nitems
    /\ (pc \in {"driver", "done"} /\ idx > 0 /\ cur.type \in {"file", "template"}) =>
          ret # "unset"

\* A template whose lookup raised returned False, and the loop went on to
\* the end of a two-item config whose first item had failed too.
C8_RunGoesOnAfterFailures ==
    /\ pc = "done"
    /\ idx = 2
    /\ Len(dispatched) = 2
    /\ reports # <<>>
    /\ reports[1] = [i |-> 1, outcome |-> "Error"]
    /\ cur.type = "template"
    /\ ret = "False"
    /\ lookups # <<>>
    /\ LastLookup.raised

ReportsFor(i) == {n \in 1..Len(reports) : reports[n].i = i}

\* The current item's call has returned.
ItemOver == idx > 0 /\ pc # "crashed" /\ ret # "unset"

Outcome_of(r) == IF r = "True" THEN "Done" ELSE "Error"

\* C9 as claimed: every dispatched item, file or template, gets exactly one
\* summary line, Done when its call returned True and Error when False.
C9_Claim ==
    (ItemOver /\ cur.type \in {"file", "template"}) =>
        /\ Cardinality(ReportsFor(idx)) = 1
        /\ \A n \in ReportsFor(idx) : reports[n].outcome = Outcome_of(ret)

\* C9 as amended: every file item gets exactly one summary line, Done when
\* process_file returned True and Error when False; a template item gets no
\* summary line, whatever process_template returned.
C9_Amended ==
    /\ (ItemOver /\ cur.type = "file") =>
          /\ Cardinality(ReportsFor(idx)) = 1
          /\ reports[Len(reports)] = [i |-> idx, outcome |-> Outcome_of(ret)]
    /\ (ItemOver /\ cur.type = "template") => ReportsFor(idx) = {}
    /\ \A n \in 1..Len(reports) :
          \E k \in 1..Len(dispatched) :
              dispatched[k] = [i |-> reports[n].i, type |-> "file"]

\* A template item with a failed match returned False and the driver
\* printed no summary line for it.
C9_TemplateFailureUnreported ==
    /\ ItemOver
    /\ cur.type = "template"
    /\ ret = "False"
    /\ \E n \in 1..Len(lookups) : lookups[n].value = None
    /\ ReportsFor(idx) = {}

\* C10 as claimed: a lookup that returns gives a value exactly when it had an
\* item, the command exited zero with an object and some entry's label is
\* the field; the value is then the first such entry's; it prints a failure
\* diagnostic exactly when it returns None.
C10_Claim ==
    (InTemplateItem /\ lookups # <<>> /\ ~LastLookup.raised) =>
        LET c == LastLookup
            hit == IF lastResp.kind = "ok"
                   THEN FirstLabelled(lastResp.fields, c.field) ELSE 0
        IN /\ (c.value # None) <=> (~Falsy(c.item) /\ hit # 0)
           /\ (hit # 0 /\ ~Falsy(c.item)) => c.value = lastResp.fields[hit].value
           /\ c.diag <=> (c.value = None)

====
